---- MODULE Spec2Model ----
(***************************************************************************)
(* Model of src/python/pipeline_orchestrator.py: main() drives one         *)
(* SnowflakePipelineOrchestrator through connect, run_pipeline and close.  *)
(* Every cursor.execute in the source is one step of the model; whether    *)
(* the warehouse accepts or rejects the statement is chosen by the         *)
(* environment (\E ok).                                                    *)
(***************************************************************************)
EXTENDS Integers, Sequences, FiniteSets, TLC

\* ---------------------------------------------------------------- bounds
\* Largest number of CDC streams INFORMATION_SCHEMA.STREAMS reports.
MaxStreams == 2
\* Largest number of rows pending in one stream.
MaxCount == 1
\* Largest number of statements the warehouse rejects.
MaxFaults == 2

\* ------------------------------------------------------- fixed catalogue
StreamNames == <<"STREAM_A", "STREAM_B", "STREAM_C", "STREAM_D">>

INIT_WH == "CLINICAL_INIT_WH"
CDC_WH == "CLINICAL_CDC_WH"
INTERACTIVE_WH == "CLINICAL_INTERACTIVE_WH"

\* refresh_dynamic_tables: the list dynamic_tables
dynamic_tables ==
  << "DT_PATIENTS", "DT_ENCOUNTERS", "DT_PRESCRIPTIONS",
     "DT_LAB_RESULTS", "DT_VITAL_SIGNS", "DT_PATIENT_SUMMARY" >>

FactEntities ==
  << "PATIENTS", "ENCOUNTERS", "PRESCRIPTIONS", "LAB_RESULTS", "VITAL_SIGNS" >>

FactSet == { FactEntities[k] : k \in 1..Len(FactEntities) }

\* populate_analytics_tables: the list analytics_queries
analytics_queries ==
  << [kind |-> "TRUNCATE", target |-> "PATIENTS"],
     [kind |-> "INSERT",   target |-> "PATIENTS"],
     [kind |-> "TRUNCATE", target |-> "ENCOUNTERS"],
     [kind |-> "INSERT",   target |-> "ENCOUNTERS"],
     [kind |-> "TRUNCATE", target |-> "PRESCRIPTIONS"],
     [kind |-> "INSERT",   target |-> "PRESCRIPTIONS"],
     [kind |-> "TRUNCATE", target |-> "LAB_RESULTS"],
     [kind |-> "INSERT",   target |-> "LAB_RESULTS"],
     [kind |-> "TRUNCATE", target |-> "VITAL_SIGNS"],
     [kind |-> "INSERT",   target |-> "VITAL_SIGNS"] >>

\* Rows of the staged table STAGING.DT_<e>, each with its _cdc_operation.
StagedRows(e) ==
  CASE e = "PATIENTS"      -> << [id |-> 1, op |-> "INSERT"], [id |-> 2, op |-> "DELETE"] >>
    [] e = "ENCOUNTERS"    -> << [id |-> 1, op |-> "UPDATE"] >>
    [] e = "PRESCRIPTIONS" -> << [id |-> 1, op |-> "DELETE"], [id |-> 2, op |-> "INSERT"],
                                 [id |-> 3, op |-> "UPDATE"] >>
    [] e = "LAB_RESULTS"   -> << [id |-> 1, op |-> "INSERT"] >>
    [] OTHER               -> << [id |-> 1, op |-> "DELETE"], [id |-> 2, op |-> "UPDATE"] >>

\* Rows ANALYTICS.<e>_FACT holds from the previous run.
OldFactRows(e) == << [id |-> 0, op |-> "INSERT"] >>

\* Rows of WAREHOUSE_METERING_HISTORY grouped by warehouse_name.
MeteringRows ==
  << [warehouse |-> INIT_WH, credits |-> 1, queries |-> 3],
     [warehouse |-> CDC_WH, credits |-> 2, queries |-> 5],
     [warehouse |-> INTERACTIVE_WH, credits |-> 4, queries |-> 7] >>

VARIABLES
  pc,            \* position in main() / run_pipeline()
  dbStreams,     \* stream names INFORMATION_SCHEMA.STREAMS holds, ordered by name
  dbCount,       \* rows pending in each stream
  staged,        \* STAGING.DT_<e> contents
  fact,          \* ANALYTICS.<e>_FACT contents
  auditLog,      \* rows of AUDIT.ACCESS_LOG
  tier,          \* active warehouse of the session
  connected,     \* result of connect()
  cursorOpen,    \* self.cursor is open
  streams,       \* run_pipeline: streams
  i,             \* index of the running for loop
  total_changes, \* run_pipeline: total_changes
  costs,         \* run_pipeline: costs
  error,         \* text of the exception run_pipeline caught, "none" if none
  success,       \* what run_pipeline returned: "True", "False", "none" before it returns
  exitCode,      \* -1 until exit() is called
  stmts,         \* every statement handed to cursor.execute, in order
  streamOutcome, \* how the stream-status query ended: "none", "ok", "exec", "iter"
  counted,       \* what get_stream_change_count returned for each stream
  populateCalls, \* number of calls of populate_analytics_tables
  closeCalls,    \* number of calls of close()
  lookupFailures, \* staged-table lookups of refresh_dynamic_tables that raised
  costOutcome,   \* how the cost query ended: "none", "ok", "exec", "iter"
  run,           \* "first" or "second" invocation of main()
  firstRun,      \* what the first invocation did, once the second has started
  start_time,    \* run_pipeline: start_time
  now,           \* logical clock: statements executed so far
  faults         \* statements the warehouse has rejected so far

vars == << pc, dbStreams, dbCount, staged, fact, auditLog, tier, connected,
           cursorOpen, streams, i, total_changes, costs, error, success,
           exitCode, stmts, streamOutcome, counted, populateCalls, closeCalls,
           lookupFailures, costOutcome, run, firstRun, start_time, now, faults >>

\* ---------------------------------------------------------------- helpers
RECURSIVE SumSeq(_)
SumSeq(s) == IF s = <<>> THEN 0 ELSE Head(s) + SumSeq(Tail(s))

Prefix(s, n) == SubSeq(s, 1, n)

\* The outcomes the environment may give a statement: it may be rejected only
\* while the fault budget lasts.
Outcomes == IF faults < MaxFaults THEN {TRUE, FALSE} ELSE {TRUE}

Fault(ok) == IF ok THEN faults ELSE faults + 1

NoCosts == <<>>

\* The text handed to log_audit_entry as details: a phrase, the number spliced
\* into it and, for COST_TRACKING, the cost mapping json.dumps renders.
Detail(text, n, c) == [text |-> text, n |-> n, costs |-> c]

NoArg == Detail("", 0, NoCosts)

\* cursor.execute(query, params): the statement is recorded with the tier it
\* runs on; the clock advances and a rejection uses up the fault budget.
Execute(kind, target, arg, ok) ==
  /\ stmts' = Append(stmts, [kind |-> kind, target |-> target, tier |-> tier, arg |-> arg])
  /\ now' = now + 1
  /\ faults' = Fault(ok)

AuditStmts == SelectSeq(stmts, LAMBDA s : s.kind = "AUDIT")

\* Mutant: the status follows the event, FAILURE for PIPELINE_ERROR.
AuditRow_TrueStatus(event_type, details) ==
  [event_type |-> event_type, details |-> details,
   execution_status |-> IF event_type = "PIPELINE_ERROR" THEN "FAILURE" ELSE "SUCCESS"]

\* The row log_audit_entry inserts: query_text is "event_type: details" and
\* execution_status is the literal 'SUCCESS'.
AuditRow(event_type, details) ==
  [event_type |-> event_type, details |-> details, execution_status |-> "SUCCESS"]

\* log_audit_entry(event_type, details): a rejected insert is caught and logged.
log_audit_entry(event_type, details, ok) ==
  /\ Execute("AUDIT", event_type, details, ok)
  /\ auditLog' = IF ok THEN Append(auditLog, AuditRow(event_type, details)) ELSE auditLog

\* Mutant: log_audit_entry lets the exception of a rejected insert out, and
\* run_pipeline's except clause runs next.
AfterAudit_Raise(ok, next) == IF ok THEN next ELSE "audit_error"

\* Where run_pipeline goes after a call of log_audit_entry: the except clause
\* of lines 221-222 keeps a rejected insert inside log_audit_entry.
AfterAudit(ok, next) == next

NoRun == [decision |-> "none", streamOutcome |-> "none", countOk |-> <<>>]

Init ==
  /\ pc = "connect"
  /\ \E n \in 0..MaxStreams :
       /\ dbStreams = Prefix(StreamNames, n)
       /\ dbCount \in [ { StreamNames[k] : k \in 1..n } -> 0..MaxCount ]
  /\ staged = [ e \in FactSet |-> StagedRows(e) ]
  /\ fact = [ e \in FactSet |-> OldFactRows(e) ]
  /\ auditLog = <<>>
  /\ tier = "none"
  /\ connected = FALSE
  /\ cursorOpen = FALSE
  /\ streams = <<>>
  /\ i = 0
  /\ total_changes = 0
  /\ costs = NoCosts
  /\ error = "none"
  /\ success = "none"
  /\ exitCode = -1
  /\ stmts = <<>>
  /\ streamOutcome = "none"
  /\ counted = <<>>
  /\ populateCalls = 0
  /\ closeCalls = 0
  /\ lookupFailures = 0
  /\ costOutcome = "none"
  /\ run = "first"
  /\ firstRun = NoRun
  /\ start_time = 0
  /\ now = 0
  /\ faults = 0

env == << dbStreams, dbCount, staged >>

runs == << run, firstRun >>

\* ------------------------------------------------------------------ main
\* Mutant: main closes the connection only after a successful run.
AfterRun_CloseOnSuccess(succ) == IF succ = "True" THEN "close" ELSE "exit"

\* main lines 295-296: orchestrator.close() follows run_pipeline whatever it
\* returned.
AfterRun(succ) == "close"

\* Mutant: main runs the pipeline whatever connect() returned.
AfterConnect_Ignore(ok) == "check_streams"

\* main: where control goes after orchestrator.connect() returns.
AfterConnect(ok) == IF ok THEN "check_streams" ELSE "exit"

\* connect(): any exception of snowflake.connector.connect is caught and
\* connect returns False; on success the session runs on init_warehouse.
\* run_pipeline then takes start_time.
Connect ==
  /\ pc = "connect"
  /\ \E ok \in BOOLEAN :
       /\ connected' = ok
       /\ cursorOpen' = ok
       /\ tier' = IF ok THEN INIT_WH ELSE tier
       /\ pc' = AfterConnect(ok)
  /\ start_time' = now
  /\ UNCHANGED << env, runs, lookupFailures, costOutcome, fact, auditLog, streams, i, total_changes, costs, error,
                  success, exitCode, stmts, streamOutcome, counted, populateCalls,
                  closeCalls, now, faults >>

\* ------------------------------------------------------- check_stream_status
StreamRecord(name) == [stream_name |-> name]

StreamRows == [ k \in 1..Len(dbStreams) |-> StreamRecord(dbStreams[k]) ]

\* Mutant: the rows appended before the iteration raised are returned.
CheckStreamStatusResult_Partial(outcome, k) ==
  IF outcome = "ok" THEN StreamRows
  ELSE IF outcome = "iter" THEN Prefix(StreamRows, k) ELSE <<>>

\* What check_stream_status returns: every row when the query and the
\* iteration succeed, [] when either raises (after k rows were appended).
CheckStreamStatusResult(outcome, k) ==
  IF outcome = "ok" THEN StreamRows ELSE <<>>

QueryOutcomes == IF faults < MaxFaults THEN {"ok", "exec", "iter"} ELSE {"ok"}

check_stream_status ==
  /\ pc = "check_streams"
  /\ \E outcome \in QueryOutcomes, k \in 0..Len(dbStreams) :
       /\ Execute("STREAMS", "INFORMATION_SCHEMA.STREAMS", NoArg, outcome = "ok")
       /\ streamOutcome' = outcome
       /\ streams' = CheckStreamStatusResult(outcome, k)
  /\ pc' = "audit_stream_check"
  /\ UNCHANGED << env, runs, lookupFailures, costOutcome, fact, auditLog, tier, connected, cursorOpen, i,
                  total_changes, costs, error, success, exitCode, counted,
                  populateCalls, closeCalls, start_time >>

\* run_pipeline line 232, then the head of the for loop over streams.
AuditStreamCheck ==
  /\ pc = "audit_stream_check"
  /\ \E ok \in Outcomes :
       /\ log_audit_entry("STREAM_CHECK", Detail("Checked streams", Len(streams), NoCosts), ok)
       /\ pc' = AfterAudit(ok, IF streams = <<>> THEN "switch_cdc" ELSE "count")
  /\ i' = 1
  /\ UNCHANGED << env, runs, lookupFailures, costOutcome, fact, tier, connected, cursorOpen, streams, total_changes,
                  costs, error, success, exitCode, streamOutcome, counted,
                  populateCalls, closeCalls, start_time >>

\* --------------------------------------------------- get_stream_change_count
\* Mutant: a failed count is reported with the sentinel -1.
get_stream_change_count_Sentinel(stream_name, ok) ==
  IF ok THEN dbCount[stream_name] ELSE 0 - 1

\* What get_stream_change_count returns: the COUNT(*) of the stream, 0 when
\* the query raises.
get_stream_change_count(stream_name, ok) ==
  IF ok THEN dbCount[stream_name] ELSE 0

\* Mutant: total_changes = changes
Accumulate_Overwrite(total, changes) == changes

\* run_pipeline: total_changes += changes
Accumulate(total, changes) == total + changes

\* Mutant: counting a stream consumes it.
AfterCount_Consume(counts, stream_name) == [counts EXCEPT ![stream_name] = 0]

\* The pending rows of the streams after SELECT COUNT(*) FROM RAW_DATA.<stream>:
\* a query reads a stream and does not advance it.
AfterCount(counts, stream_name) == counts

\* One pass of the loop "for stream in streams".
CountChanges ==
  /\ pc = "count"
  /\ i \in 1..Len(streams)
  /\ \E ok \in Outcomes :
       LET name == streams[i].stream_name
           changes == get_stream_change_count(name, ok)
       IN /\ Execute("COUNT", name, NoArg, ok)
          /\ counted' = Append(counted, [stream_name |-> name, ok |-> ok, changes |-> changes])
          /\ total_changes' = Accumulate(total_changes, changes)
          /\ dbCount' = AfterCount(dbCount, name)
  /\ i' = i + 1
  /\ pc' = IF i = Len(streams) THEN "switch_cdc" ELSE "count"
  /\ UNCHANGED << dbStreams, staged, runs, lookupFailures, costOutcome, fact, auditLog, tier, connected, cursorOpen, streams,
                  costs, error, success, exitCode, streamOutcome,
                  populateCalls, closeCalls, start_time >>

\* str(e) of the exception a rejected USE WAREHOUSE raises.
SwitchError(wh) ==
  IF wh = CDC_WH THEN "USE WAREHOUSE CLINICAL_CDC_WH failed"
                 ELSE "USE WAREHOUSE CLINICAL_INTERACTIVE_WH failed"

\* Mutant: the USE WAREHOUSE sits in a try of its own and the stage goes on.
AfterSwitch_Ignore(ok, next) == next

\* A USE WAREHOUSE outside any try: when it is rejected the exception leaves
\* the stage and run_pipeline's try block, and the except clause runs next.
AfterSwitch(ok, next) == IF ok THEN next ELSE "audit_error"

\* Mutant: the directive is accepted and the session stays on its tier.
UseWarehouse_NoEffect(ok, wh) == tier

\* The active tier after USE WAREHOUSE <wh>: an accepted directive switches
\* the session, a rejected one leaves it where it was.
UseWarehouse(ok, wh) == IF ok THEN wh ELSE tier

\* Mutant: the lookup has no try, so a failed lookup leaves run_pipeline's
\* try block.
LookupNext_Raise(idx, ok) ==
  IF ~ok THEN "audit_error"
  ELSE IF idx = Len(dynamic_tables) THEN "audit_dynamic" ELSE "lookup"

\* Mutant: the try encloses the loop, so the first failed lookup ends it.
LookupNext_StopOnError(idx, ok) ==
  IF idx = Len(dynamic_tables) \/ ~ok THEN "audit_dynamic" ELSE "lookup"

\* Where the loop "for table in dynamic_tables" goes after lookup idx: a
\* failed lookup is caught and logged, and the loop goes on.
LookupNext(idx, ok) ==
  IF idx = Len(dynamic_tables) THEN "audit_dynamic" ELSE "lookup"

\* ---------------------------------------------------- refresh_dynamic_tables
\* Line 116, outside any try: USE WAREHOUSE <cdc_warehouse>. A rejection
\* leaves refresh_dynamic_tables and run_pipeline's try block.
SwitchCdc ==
  /\ pc = "switch_cdc"
  /\ \E ok \in Outcomes :
       /\ Execute("USE", CDC_WH, NoArg, ok)
       /\ tier' = UseWarehouse(ok, CDC_WH)
       /\ error' = IF ok THEN error ELSE SwitchError(CDC_WH)
       /\ pc' = AfterSwitch(ok, "lookup")
  /\ i' = 1
  /\ UNCHANGED << env, runs, lookupFailures, costOutcome, fact, auditLog, connected, cursorOpen, streams,
                  total_changes, costs, success, exitCode, streamOutcome, counted,
                  populateCalls, closeCalls, start_time >>

\* One pass of "for table in dynamic_tables": the lookup's outcome changes
\* nothing but the log.
LookupStaged ==
  /\ pc = "lookup"
  /\ i \in 1..Len(dynamic_tables)
  /\ \E ok \in Outcomes :
       /\ Execute("LOOKUP", dynamic_tables[i], NoArg, ok)
       /\ lookupFailures' = IF ok THEN lookupFailures ELSE lookupFailures + 1
       /\ pc' = LookupNext(i, ok)
  /\ i' = i + 1
  /\ UNCHANGED << env, runs, costOutcome, fact, auditLog, tier, connected, cursorOpen, streams,
                  total_changes, costs, error, success, exitCode, streamOutcome,
                  counted, populateCalls, closeCalls, start_time >>

\* Mutant: if total_changes >= 0
ShouldPopulate_NonNegative(total) == total >= 0

\* run_pipeline line 247: if total_changes > 0
ShouldPopulate(total) == total > 0

\* run_pipeline line 244, then the test of line 247.
AuditDynamicTables ==
  /\ pc = "audit_dynamic"
  /\ \E ok \in Outcomes :
       /\ log_audit_entry("DYNAMIC_TABLES", Detail("Checked dynamic table status", 0, NoCosts), ok)
       /\ pc' = AfterAudit(ok, IF ShouldPopulate(total_changes) THEN "switch_interactive"
                                                                  ELSE "costs")
  /\ UNCHANGED << env, runs, lookupFailures, costOutcome, fact, tier, connected, cursorOpen, streams, i, total_changes,
                  costs, error, success, exitCode, streamOutcome, counted,
                  populateCalls, closeCalls, start_time >>

\* ------------------------------------------------- populate_analytics_tables
\* Entry of populate_analytics_tables and line 142, outside any try:
\* USE WAREHOUSE <interactive_warehouse>.
SwitchInteractive ==
  /\ pc = "switch_interactive"
  /\ populateCalls' = populateCalls + 1
  /\ \E ok \in Outcomes :
       /\ Execute("USE", INTERACTIVE_WH, NoArg, ok)
       /\ tier' = UseWarehouse(ok, INTERACTIVE_WH)
       /\ error' = IF ok THEN error ELSE SwitchError(INTERACTIVE_WH)
       /\ pc' = AfterSwitch(ok, "populate")
  /\ i' = 1
  /\ UNCHANGED << env, runs, lookupFailures, costOutcome, fact, auditLog, connected, cursorOpen, streams,
                  total_changes, costs, success, exitCode, streamOutcome, counted,
                  closeCalls, start_time >>

\* SELECT * FROM STAGING.DT_<e> WHERE _cdc_operation != 'DELETE'
NotDeleted(rows) == SelectSeq(rows, LAMBDA r : r.op # "DELETE")

\* The effect of one accepted statement of analytics_queries on the fact
\* tables; each statement commits on its own.
ApplyQuery(q, f) ==
  IF q.kind = "TRUNCATE"
    THEN [f EXCEPT ![q.target] = <<>>]
    ELSE [f EXCEPT ![q.target] = @ \o NotDeleted(staged[q.target])]

\* Mutant: the try encloses the loop, so the first rejected statement ends it.
PopulateNext_StopOnError(idx, ok) ==
  IF idx = Len(analytics_queries) \/ ~ok THEN "audit_analytics" ELSE "populate"

\* Mutant: the ANALYTICS_REFRESH entry is left out.
PopulateNext_NoAudit(idx, ok) ==
  IF idx = Len(analytics_queries) THEN "costs" ELSE "populate"

\* Where the loop "for query in analytics_queries" goes after statement idx:
\* a rejected statement is caught and logged, and the loop goes on.
PopulateNext(idx, ok) ==
  IF idx = Len(analytics_queries) THEN "audit_analytics" ELSE "populate"

\* One pass of "for query in analytics_queries".
AnalyticsQuery ==
  /\ pc = "populate"
  /\ i \in 1..Len(analytics_queries)
  /\ \E ok \in Outcomes :
       LET q == analytics_queries[i]
       IN /\ Execute(q.kind, q.target, NoArg, ok)
          /\ fact' = IF ok THEN ApplyQuery(q, fact) ELSE fact
          /\ pc' = PopulateNext(i, ok)
  /\ i' = i + 1
  /\ UNCHANGED << env, runs, lookupFailures, costOutcome, auditLog, tier, connected, cursorOpen, streams,
                  total_changes, costs, error, success, exitCode, streamOutcome,
                  counted, populateCalls, closeCalls, start_time >>

\* run_pipeline line 249
AuditAnalyticsRefresh ==
  /\ pc = "audit_analytics"
  /\ \E ok \in Outcomes :
       /\ log_audit_entry("ANALYTICS_REFRESH", Detail("Processed changes", total_changes, NoCosts), ok)
       /\ pc' = AfterAudit(ok, "costs")
  /\ UNCHANGED << env, runs, lookupFailures, costOutcome, fact, tier, connected, cursorOpen, streams, i, total_changes,
                  costs, error, success, exitCode, streamOutcome, counted,
                  populateCalls, closeCalls, start_time >>

\* ------------------------------------------------------- get_warehouse_costs
\* Mutant: the entries stored before the iteration raised are returned.
GetWarehouseCostsResult_Partial(outcome, k) ==
  IF outcome = "ok" THEN MeteringRows
  ELSE IF outcome = "iter" THEN Prefix(MeteringRows, k) ELSE NoCosts

\* What get_warehouse_costs returns: one entry per row when the query and
\* the iteration succeed, {} when either raises (after k rows were stored).
GetWarehouseCostsResult(outcome, k) ==
  IF outcome = "ok" THEN MeteringRows ELSE NoCosts

get_warehouse_costs ==
  /\ pc = "costs"
  /\ \E outcome \in QueryOutcomes, k \in 0..Len(MeteringRows) :
       /\ Execute("COSTS", "WAREHOUSE_METERING_HISTORY", NoArg, outcome = "ok")
       /\ costs' = GetWarehouseCostsResult(outcome, k)
       /\ costOutcome' = outcome
  /\ pc' = "audit_costs"
  /\ UNCHANGED << env, runs, lookupFailures, fact, auditLog, tier, connected, cursorOpen, streams, i,
                  total_changes, error, success, exitCode, streamOutcome, counted,
                  populateCalls, closeCalls, start_time >>

\* run_pipeline line 253
AuditCostTracking ==
  /\ pc = "audit_costs"
  /\ \E ok \in Outcomes :
       /\ log_audit_entry("COST_TRACKING", Detail("Weekly costs", 0, costs), ok)
       /\ pc' = AfterAudit(ok, "audit_complete")
  /\ UNCHANGED << env, runs, lookupFailures, costOutcome, fact, tier, connected, cursorOpen, streams, i, total_changes,
                  costs, error, success, exitCode, streamOutcome, counted,
                  populateCalls, closeCalls, start_time >>

\* run_pipeline lines 256-260: duration, the PIPELINE_COMPLETE entry, return True.
AuditPipelineComplete ==
  /\ pc = "audit_complete"
  /\ \E ok \in Outcomes :
       LET next == AfterAudit(ok, AfterRun("True"))
       IN /\ log_audit_entry("PIPELINE_COMPLETE", Detail("Duration", now - start_time, NoCosts), ok)
          /\ pc' = next
          /\ success' = IF next = "audit_error" THEN success ELSE "True"
  /\ UNCHANGED << env, runs, lookupFailures, costOutcome, fact, tier, connected, cursorOpen, streams, i, total_changes,
                  costs, error, exitCode, streamOutcome, counted,
                  populateCalls, closeCalls, start_time >>

\* run_pipeline lines 262-265: the PIPELINE_ERROR entry with str(e), return False.
AuditPipelineError ==
  /\ pc = "audit_error"
  /\ \E ok \in Outcomes :
       log_audit_entry("PIPELINE_ERROR", Detail(error, 0, NoCosts), ok)
  /\ success' = "False"
  /\ pc' = AfterRun("False")
  /\ UNCHANGED << env, runs, lookupFailures, costOutcome, fact, tier, connected, cursorOpen, streams, i, total_changes,
                  costs, error, exitCode, streamOutcome, counted,
                  populateCalls, closeCalls, start_time >>

\* ------------------------------------------------------------- close, exit
\* close(): the cursor and the connection are closed.
Close ==
  /\ pc = "close"
  /\ closeCalls' = closeCalls + 1
  /\ cursorOpen' = FALSE
  /\ pc' = "exit"
  /\ UNCHANGED << env, runs, lookupFailures, costOutcome, fact, auditLog, tier, connected, streams, i, total_changes,
                  costs, error, success, exitCode, stmts, streamOutcome, counted,
                  populateCalls, start_time, now, faults >>

\* Mutant: exit(0) whenever the connection was made.
ExitCode_IgnoreResult(conn, succ) == IF conn THEN 0 ELSE 1

\* main lines 294-301: exit(0 if success else 1) after a run, exit(1) when
\* connect returned False.
ExitCode(conn, succ) == IF conn /\ succ = "True" THEN 0 ELSE 1

Exit ==
  /\ pc = "exit"
  /\ exitCode' = ExitCode(connected, success)
  /\ pc' = "done"
  /\ UNCHANGED << env, runs, lookupFailures, costOutcome, fact, auditLog, tier, connected, cursorOpen, streams, i,
                  total_changes, costs, error, success, stmts, streamOutcome,
                  counted, populateCalls, closeCalls, start_time, now, faults >>

Next ==
  \/ Connect
  \/ check_stream_status
  \/ AuditStreamCheck
  \/ CountChanges
  \/ SwitchCdc
  \/ LookupStaged
  \/ AuditDynamicTables
  \/ SwitchInteractive
  \/ AnalyticsQuery
  \/ AuditAnalyticsRefresh
  \/ get_warehouse_costs
  \/ AuditCostTracking
  \/ AuditPipelineComplete
  \/ AuditPipelineError
  \/ Close
  \/ Exit

Spec == Init /\ [][Next]_vars

\* The program is sequential and every call it makes returns: while a step
\* is possible, one is taken.
FairSpec == Spec /\ WF_vars(Next)

\* ----------------------------------------------------------- a second run
\* The decision of line 247, once run_pipeline has passed it.
Decision ==
  IF \E k \in 1..Len(stmts) : stmts[k].kind = "AUDIT" /\ stmts[k].target = "DYNAMIC_TABLES"
    THEN (IF pc = "switch_interactive" \/ populateCalls = 1 THEN "populate" ELSE "skip")
    ELSE "none"

CountOk == [ k \in 1..Len(counted) |-> counted[k].ok ]

\* main() is invoked again after the process has exited: the process starts
\* afresh, while the warehouse keeps the streams, the staged tables, the fact
\* tables and the audit table as the first run left them.
Rerun ==
  /\ pc = "done"
  /\ run = "first"
  /\ run' = "second"
  /\ firstRun' = [decision |-> Decision, streamOutcome |-> streamOutcome, countOk |-> CountOk]
  /\ pc' = "connect"
  /\ tier' = "none"
  /\ connected' = FALSE
  /\ cursorOpen' = FALSE
  /\ streams' = <<>>
  /\ i' = 0
  /\ total_changes' = 0
  /\ costs' = NoCosts
  /\ error' = "none"
  /\ success' = "none"
  /\ exitCode' = -1
  /\ stmts' = <<>>
  /\ streamOutcome' = "none"
  /\ counted' = <<>>
  /\ populateCalls' = 0
  /\ closeCalls' = 0
  /\ lookupFailures' = 0
  /\ costOutcome' = "none"
  /\ start_time' = 0
  /\ now' = 0
  /\ UNCHANGED << env, fact, auditLog, faults >>

NextTwoRuns == Next \/ Rerun

SpecTwoRuns == Init /\ [][NextTwoRuns]_vars

\* ======================================================================
\* Properties
\* ======================================================================
AuditEvents == [ k \in 1..Len(AuditStmts) |-> AuditStmts[k].target ]

FactStmts == SelectSeq(stmts, LAMBDA s : s.kind \in {"TRUNCATE", "INSERT"})

FactQueries ==
  [ k \in 1..Len(FactStmts) |-> [kind |-> FactStmts[k].kind, target |-> FactStmts[k].target] ]

\* The sum of what get_stream_change_count returned, stream by stream.
CountedSum == SumSeq([ k \in 1..Len(counted) |-> counted[k].changes ])

Issued(event) == \E k \in 1..Len(AuditStmts) : AuditStmts[k].target = event

Returned == pc \in {"close", "exit", "done"} /\ connected

\* C1 as stated: once run_pipeline has returned, populate_analytics_tables
\* was invoked exactly once if the summed counts are positive and not at all
\* otherwise, and with a sum of 0 no TRUNCATE or INSERT was issued.
C1_Original ==
  Returned =>
    /\ populateCalls = (IF CountedSum > 0 THEN 1 ELSE 0)
    /\ (CountedSum = 0 => FactStmts = <<>>)

\* C1 amended: populate_analytics_tables is invoked (exactly once) if and
\* only if refresh_dynamic_tables returned without raising and the sum of the
\* counts returned for all streams of check_stream_status is strictly
\* positive; with a sum of 0 it is never invoked and no TRUNCATE or INSERT is
\* issued on any fact table.
C1_PopulateIffPositive ==
  /\ populateCalls \in {0, 1}
  /\ pc # "switch_interactive" =>
       ((populateCalls = 1) <=>
          /\ Issued("DYNAMIC_TABLES")
          /\ Len(counted) = Len(streams)
          /\ CountedSum > 0)
  /\ FactStmts # <<>> => populateCalls = 1 /\ CountedSum > 0

C1_Witness ==
  /\ pc = "done"
  /\ populateCalls = 1
  /\ Len(counted) = 2
  /\ counted[1].changes > 0
  /\ counted[2].changes = 0

\* C2 as stated: whenever populate_analytics_tables was invoked (the total
\* is positive), the statements issued on the fact tables are exactly
\* TRUNCATE then INSERT for each of the five entities in the fixed order.
C2_Original ==
  Returned /\ populateCalls = 1 => FactQueries = analytics_queries

\* C2 amended: when populate_analytics_tables is invoked and its switch to
\* the interactive tier succeeds, it issues for each of the five entities in
\* the fixed order exactly one TRUNCATE followed by exactly one INSERT,
\* whichever of these statements fail; when the run does not get that far no
\* statement is issued on a fact table.
C2_TruncateInsertEach ==
  IF tier = INTERACTIVE_WH
    THEN FactQueries =
           (IF pc = "populate" THEN Prefix(analytics_queries, i - 1) ELSE analytics_queries)
    ELSE FactQueries = <<>>

C2_Witness ==
  /\ pc = "done"
  /\ FactQueries = analytics_queries
  /\ fact["PATIENTS"] = <<>>
  /\ fact["ENCOUNTERS"] = OldFactRows("ENCOUNTERS") \o NotDeleted(staged["ENCOUNTERS"])
  /\ fact["PRESCRIPTIONS"] = NotDeleted(staged["PRESCRIPTIONS"])

PopulateReturned ==
  pc \in {"audit_analytics", "costs", "audit_costs", "audit_complete", "close", "exit", "done"}
  /\ populateCalls = 1
  /\ tier = INTERACTIVE_WH

\* C3: after populate_analytics_tables returns, each fact table holds either
\* exactly the staged rows not marked DELETE or what it held before the call.
C3_AtomicReplace ==
  PopulateReturned =>
    \A e \in FactSet :
      fact[e] = NotDeleted(staged[e]) \/ fact[e] = OldFactRows(e)

ErrorEvents(failed) ==
  IF failed = CDC_WH
    THEN << "STREAM_CHECK", "PIPELINE_ERROR" >>
    ELSE << "STREAM_CHECK", "DYNAMIC_TABLES", "PIPELINE_ERROR" >>

StmtsOfKind(kinds) == SelectSeq(stmts, LAMBDA s : s.kind \in kinds)

\* C4: when a tier switch is rejected the run goes directly to FAILED: the
\* rejected USE WAREHOUSE is the last statement but the PIPELINE_ERROR insert,
\* no staged-table lookup, truncate, insert or cost query of that or a later
\* stage is issued, no further stage entry is logged, exactly one
\* PIPELINE_ERROR entry carrying the error text is logged, and run_pipeline
\* returns False.
C4_ErrorGoesToFailed ==
  error # "none" =>
    /\ pc \in {"audit_error", "close", "exit", "done"}
    /\ LET n == IF pc = "audit_error" THEN Len(stmts) ELSE Len(stmts) - 1
           use == stmts[n]
       IN /\ use.kind = "USE"
          /\ tier # use.target
          /\ error = SwitchError(use.target)
          /\ use.target = CDC_WH => StmtsOfKind({"LOOKUP"}) = <<>>
          /\ StmtsOfKind({"TRUNCATE", "INSERT", "COSTS"}) = <<>>
          /\ pc # "audit_error" =>
               /\ AuditEvents = ErrorEvents(use.target)
               /\ stmts[Len(stmts)].kind = "AUDIT"
               /\ stmts[Len(stmts)].target = "PIPELINE_ERROR"
               /\ stmts[Len(stmts)].arg.text = error
               /\ success = "False"
          /\ \A k \in 1..Len(auditLog) :
               auditLog[k].event_type = "PIPELINE_ERROR" =>
                 k = Len(auditLog) /\ auditLog[k].details.text = error

C4_Witness ==
  /\ pc = "done"
  /\ error = SwitchError(INTERACTIVE_WH)
  /\ success = "False"
  /\ populateCalls = 1

\* C5: the exit code is 0 exactly when the connection succeeded and the run
\* reached COMPLETE (its last audit call is PIPELINE_COMPLETE and no error was
\* caught), and 1 otherwise.
C5_ExitCode ==
  /\ exitCode \in {-1, 0, 1}
  /\ (exitCode # -1) <=> (pc = "done")
  /\ pc = "done" =>
       /\ (exitCode = 0) <=>
            /\ connected
            /\ error = "none"
            /\ success = "True"
            /\ AuditEvents # <<>>
            /\ AuditEvents[Len(AuditEvents)] = "PIPELINE_COMPLETE"
       /\ (exitCode = 1) <=> (~connected \/ error # "none")

C5_Witness ==
  /\ pc = "done"
  /\ connected
  /\ exitCode = 1

\* C6: when connect fails no statement at all is issued, no audit entry is
\* written, no table changes, close is not called and the exit code is 1.
C6_ConnectFailure ==
  (pc # "connect" /\ ~connected) =>
    /\ pc \in {"exit", "done"}
    /\ stmts = <<>>
    /\ auditLog = <<>>
    /\ populateCalls = 0
    /\ closeCalls = 0
    /\ tier = "none"
    /\ fact = [ e \in FactSet |-> OldFactRows(e) ]
    /\ pc = "done" => exitCode = 1

C6_Witness ==
  /\ pc = "done"
  /\ ~connected
  /\ exitCode = 1

EventsWithChanges ==
  << "STREAM_CHECK", "DYNAMIC_TABLES", "ANALYTICS_REFRESH", "COST_TRACKING",
     "PIPELINE_COMPLETE" >>

EventsWithoutChanges ==
  << "STREAM_CHECK", "DYNAMIC_TABLES", "COST_TRACKING", "PIPELINE_COMPLETE" >>

LoggedEvents == [ k \in 1..Len(auditLog) |-> auditLog[k].event_type ]

\* C7: a run that returns True has made exactly 5 audit calls, in the order
\* STREAM_CHECK, DYNAMIC_TABLES, ANALYTICS_REFRESH, COST_TRACKING,
\* PIPELINE_COMPLETE, when the total of pending changes is positive, and
\* exactly 4 (the same without ANALYTICS_REFRESH) when it is 0; when no audit
\* insert was rejected these are the rows the run added to the audit table.
C7_AuditSequence ==
  (Returned /\ success = "True") =>
    /\ AuditEvents = (IF total_changes > 0 THEN EventsWithChanges ELSE EventsWithoutChanges)
    /\ Len(AuditEvents) = (IF total_changes > 0 THEN 5 ELSE 4)
    /\ Len(auditLog) = Len(AuditEvents) => LoggedEvents = AuditEvents

C7_Witness ==
  /\ pc = "done"
  /\ success = "True"
  /\ total_changes > 0
  /\ LoggedEvents = EventsWithChanges

\* The states of the run sequence, in order; POPULATING and SKIPPING share a
\* rank.
Rank ==
  CASE pc = "check_streams"      -> 1
    [] pc = "count"              -> 2
    [] pc = "switch_cdc"         -> 3
    [] pc = "switch_interactive" -> 4
    [] pc = "costs"              -> 5
    [] OTHER                     -> 6

\* The first step of a state's work, or COMPLETE just reached.
StateBegins ==
  \/ pc \in {"check_streams", "count", "switch_cdc", "switch_interactive", "costs"}
  \/ pc = "close" /\ success = "True"

\* C8 as stated: each transition of the state sequence has emitted exactly
\* one audit entry by the time the next state's work begins, so a state of
\* rank r begins with r entries emitted.
C8_Original == StateBegins => Len(AuditEvents) = Rank

\* C8 amended: each of the stages CHECKING_STREAMS, CHECKING_STAGED_TABLES,
\* POPULATING and TRACKING_COSTS emits exactly one audit entry when its work
\* is done, before the next stage's work begins, and reaching COMPLETE emits
\* one more (PIPELINE_COMPLETE); the transitions CONNECTING ->
\* CHECKING_STREAMS, COUNTING_CHANGES -> CHECKING_STAGED_TABLES and SKIPPING ->
\* TRACKING_COSTS emit none.
C8_AuditPerStage ==
  /\ pc \in {"connect", "check_streams", "audit_stream_check"} => AuditEvents = <<>>
  /\ pc \in {"count", "switch_cdc", "lookup", "audit_dynamic"} =>
       AuditEvents = << "STREAM_CHECK" >>
  /\ pc \in {"switch_interactive", "populate", "audit_analytics"} =>
       AuditEvents = << "STREAM_CHECK", "DYNAMIC_TABLES" >>
  /\ pc \in {"costs", "audit_costs"} =>
       AuditEvents = IF populateCalls = 1
                       THEN << "STREAM_CHECK", "DYNAMIC_TABLES", "ANALYTICS_REFRESH" >>
                       ELSE << "STREAM_CHECK", "DYNAMIC_TABLES" >>
  /\ pc = "audit_complete" =>
       AuditEvents = IF populateCalls = 1
                       THEN << "STREAM_CHECK", "DYNAMIC_TABLES", "ANALYTICS_REFRESH",
                               "COST_TRACKING" >>
                       ELSE << "STREAM_CHECK", "DYNAMIC_TABLES", "COST_TRACKING" >>
  /\ (pc = "close" /\ success = "True") =>
       AuditEvents = IF populateCalls = 1 THEN EventsWithChanges ELSE EventsWithoutChanges

C8_Witness ==
  /\ pc = "costs"
  /\ populateCalls = 0
  /\ AuditEvents = << "STREAM_CHECK", "DYNAMIC_TABLES" >>
  /\ Len(counted) = 2

SwitchErrors == { SwitchError(CDC_WH), SwitchError(INTERACTIVE_WH) }

BeforeCounting == pc \in {"connect", "check_streams", "audit_stream_check"}

\* C9: get_stream_change_count returns the stream's count, and 0 when its
\* query is rejected; it never raises, so a rejected count adds 0 to the
\* total, every stream returned by check_stream_status is still counted, in
\* order, and the only errors that end a run are rejected tier switches.
C9_CountFailsSoft ==
  /\ Len(counted) <= Len(streams)
  /\ \A k \in 1..Len(counted) :
       /\ counted[k].stream_name = streams[k].stream_name
       /\ counted[k].changes =
            (IF counted[k].ok THEN dbCount[counted[k].stream_name] ELSE 0)
  /\ total_changes = CountedSum
  /\ pc = "count" => Len(counted) = i - 1 /\ error = "none"
  /\ (connected /\ ~BeforeCounting /\ pc # "count") => Len(counted) = Len(streams)
  /\ error \in {"none"} \cup SwitchErrors

C9_Witness ==
  /\ pc = "done"
  /\ success = "True"
  /\ Len(counted) = 2
  /\ ~counted[1].ok
  /\ dbCount[counted[1].stream_name] > 0
  /\ counted[2].ok
  /\ counted[2].changes > 0

\* C10: check_stream_status returns every stream when its query and the
\* iteration over the rows succeed, and the empty sequence (never a part of
\* the rows) when either fails; it never raises, and the run goes on with
\* zero streams: STREAM_CHECK reports 0 streams, nothing is counted, the fact
\* populator is not invoked, and the run completes unless a tier switch is
\* rejected.
C10_StreamStatusFailsSoft ==
  /\ (streamOutcome = "none") <=> (pc \in {"connect", "check_streams"} \/ ~connected)
  /\ streamOutcome = "ok" => streams = StreamRows
  /\ streamOutcome \in {"exec", "iter"} =>
       /\ streams = <<>>
       /\ pc # "count"
       /\ counted = <<>>
       /\ total_changes = 0
       /\ populateCalls = 0
       /\ AuditStmts # <<>> =>
            AuditStmts[1].target = "STREAM_CHECK" /\ AuditStmts[1].arg.n = 0
       /\ error \in {"none", SwitchError(CDC_WH)}
       /\ (pc = "done" /\ error = "none") => success = "True" /\ exitCode = 0

C10_Witness ==
  /\ pc = "done"
  /\ streamOutcome = "iter"
  /\ Len(dbStreams) = 2
  /\ dbCount[dbStreams[1]] > 0
  /\ success = "True"
  /\ exitCode = 0

NonAuditStmts == SelectSeq(stmts, LAMBDA s : s.kind # "AUDIT")

NonAuditQueries ==
  [ k \in 1..Len(NonAuditStmts) |->
      [kind |-> NonAuditStmts[k].kind, target |-> NonAuditStmts[k].target] ]

Q(kind, target) == [kind |-> kind, target |-> target]

\* The statements other than audit inserts of a finished run, written from the
\* outcomes of the non-audit statements alone: the streams returned, the tier
\* the session ended on and the total counted.
ReferenceQueries ==
  << Q("STREAMS", "INFORMATION_SCHEMA.STREAMS") >>
  \o [ k \in 1..Len(streams) |-> Q("COUNT", streams[k].stream_name) ]
  \o << Q("USE", CDC_WH) >>
  \o (IF tier = INIT_WH THEN <<>>
      ELSE [ k \in 1..Len(dynamic_tables) |-> Q("LOOKUP", dynamic_tables[k]) ]
           \o (IF total_changes > 0 THEN << Q("USE", INTERACTIVE_WH) >> ELSE <<>>)
           \o (IF tier = INTERACTIVE_WH THEN analytics_queries ELSE <<>>)
           \o (IF total_changes > 0 /\ tier = CDC_WH
                 THEN <<>>
                 ELSE << Q("COSTS", "WAREHOUSE_METERING_HISTORY") >>))

\* What run_pipeline returns in that run.
ReferenceResult ==
  IF tier = INIT_WH \/ (total_changes > 0 /\ tier = CDC_WH) THEN "False" ELSE "True"

\* C11: whichever audit inserts are rejected, the PIPELINE_ERROR insert
\* included, a finished run has issued the same non-audit statements and
\* returned the same value as the run with the same outcomes of its non-audit
\* statements in which every audit insert is accepted; and a call of
\* log_audit_entry changes nothing of the run but the audit table.
C11_AuditFailureContained ==
  /\ Returned =>
       /\ NonAuditQueries = ReferenceQueries
       /\ success = ReferenceResult
  /\ (Len(auditLog) < Len(AuditStmts) /\ error = "none") =>
       pc \notin {"audit_error"} /\ success # "False"

C11_Witness ==
  /\ pc = "done"
  /\ AuditEvents = << "STREAM_CHECK", "PIPELINE_ERROR" >>
  /\ LoggedEvents = << "STREAM_CHECK" >>
  /\ success = "False"

\* C12: once the switch to the CDC tier is accepted, each of the 6 staged
\* tables is looked up exactly once, in the fixed order, whichever lookups
\* fail, and a failed lookup does not fail the run.
C12_LookupsIsolated ==
  LET lookups == StmtsOfKind({"LOOKUP"})
      targets == [ k \in 1..Len(lookups) |-> lookups[k].target ]
  IN /\ targets =
          (IF pc = "lookup" THEN Prefix(dynamic_tables, i - 1)
           ELSE IF tier \in {CDC_WH, INTERACTIVE_WH} THEN dynamic_tables
           ELSE <<>>)
     /\ lookupFailures <= Len(lookups)
     /\ (tier \in {CDC_WH, INTERACTIVE_WH} /\ pc \notin {"lookup", "audit_dynamic"}) =>
          Issued("DYNAMIC_TABLES")
     /\ error \in {"none", SwitchError(CDC_WH), SwitchError(INTERACTIVE_WH)}
     /\ (Returned /\ lookupFailures > 0 /\ total_changes = 0) => success = "True"

C12_Witness ==
  /\ pc = "done"
  /\ lookupFailures = 2
  /\ Len(StmtsOfKind({"LOOKUP"})) = 6
  /\ success = "True"

\* C13: get_warehouse_costs returns one entry per warehouse when its query
\* and the iteration succeed and the empty mapping (never a part of it) when
\* either fails; it never raises, and the run still logs COST_TRACKING and
\* reaches COMPLETE.
C13_CostsFailSoft ==
  /\ (costOutcome = "none") <=> StmtsOfKind({"COSTS"}) = <<>>
  /\ costOutcome = "none" => costs = NoCosts
  /\ costOutcome = "ok" => costs = MeteringRows
  /\ costOutcome \in {"exec", "iter"} =>
       /\ costs = NoCosts
       /\ error = "none"
       /\ pc \in {"audit_costs", "audit_complete", "close", "exit", "done"}
       /\ pc # "audit_costs" =>
            /\ Issued("COST_TRACKING")
            /\ AuditStmts[Len(AuditStmts) - (IF pc = "audit_complete" THEN 0 ELSE 1)].arg.costs
                 = NoCosts
       /\ pc \in {"close", "exit", "done"} =>
            /\ success = "True"
            /\ AuditEvents[Len(AuditEvents)] = "PIPELINE_COMPLETE"

C13_Witness ==
  /\ pc = "done"
  /\ costOutcome = "iter"
  /\ success = "True"
  /\ exitCode = 0

\* C14: the stream-status query and every count query run on the connection
\* tier, every staged-table lookup on the CDC tier, every TRUNCATE and INSERT
\* on the interactive tier, and the cost query on the tier the preceding stage
\* left active: interactive if the population ran, CDC otherwise.
C14_TierPerStatement ==
  \A k \in 1..Len(stmts) :
    LET s == stmts[k]
    IN /\ s.kind \in {"STREAMS", "COUNT"} => s.tier = INIT_WH
       /\ s.kind = "LOOKUP" =>
            /\ s.tier = CDC_WH
            /\ \E j \in 1..(k - 1) : stmts[j].kind = "USE" /\ stmts[j].target = CDC_WH
       /\ s.kind \in {"TRUNCATE", "INSERT"} =>
            /\ s.tier = INTERACTIVE_WH
            /\ \E j \in 1..(k - 1) : stmts[j].kind = "USE" /\ stmts[j].target = INTERACTIVE_WH
       /\ s.kind = "COSTS" =>
            s.tier = (IF FactStmts # <<>> THEN INTERACTIVE_WH ELSE CDC_WH)
       /\ (s.kind = "USE" /\ s.target = CDC_WH) => s.tier = INIT_WH
       /\ (s.kind = "USE" /\ s.target = INTERACTIVE_WH) => s.tier = CDC_WH

C14_Witness ==
  /\ pc = "done"
  /\ \E k \in 1..Len(stmts) : stmts[k].kind = "COSTS" /\ stmts[k].tier = INTERACTIVE_WH
  /\ \E k \in 1..Len(stmts) : stmts[k].kind = "COUNT" /\ stmts[k].tier = INIT_WH

\* The exception that escaped a component: the last statement that is not an
\* audit insert is a USE WAREHOUSE the session did not follow.
SwitchRejected ==
  /\ NonAuditStmts # <<>>
  /\ LET last == NonAuditStmts[Len(NonAuditStmts)]
     IN last.kind = "USE" /\ last.target # tier

\* C15: a rejected stream-status query, count query, staged-table lookup,
\* truncate, insert, cost query or audit insert is absorbed by its component:
\* a finished run returned True unless a tier switch was rejected, and it
\* returned False, having caught an exception, only in that case.
C15_ComponentFailuresAbsorbed ==
  /\ Returned =>
       /\ (success = "False") <=> SwitchRejected
       /\ (success = "True") <=> ~SwitchRejected
       /\ (error # "none") <=> SwitchRejected
  /\ (pc = "done" /\ connected /\ ~SwitchRejected) => exitCode = 0

C15_Witness ==
  /\ pc = "done"
  /\ success = "True"
  /\ faults = MaxFaults
  /\ lookupFailures > 0
  /\ costOutcome = "exec"

\* C16: every row log_audit_entry appends to the audit table carries the
\* status SUCCESS, the PIPELINE_ERROR row of a failed run and the
\* ANALYTICS_REFRESH row of a run with rejected truncates or inserts included.
C16_StatusAlwaysSuccess ==
  /\ \A k \in 1..Len(auditLog) : auditLog[k].execution_status = "SUCCESS"
  /\ Len(auditLog) <= Len(AuditStmts)

C16_Witness ==
  /\ pc = "done"
  /\ success = "False"
  /\ auditLog # <<>>
  /\ auditLog[Len(auditLog)].event_type = "PIPELINE_ERROR"
  /\ auditLog[Len(auditLog)].execution_status = "SUCCESS"

\* C17: the last audit entry of a finished run, PIPELINE_COMPLETE or
\* PIPELINE_ERROR, carries the duration measured from start_time.
C17_DurationInFinalEntry ==
  Returned =>
    LET last == AuditStmts[Len(AuditStmts)]
    IN /\ last.target \in {"PIPELINE_COMPLETE", "PIPELINE_ERROR"}
       /\ last.arg.text = "Duration"
       /\ last.arg.n = (Len(stmts) - 1) - start_time

TerminalEvents == {"PIPELINE_COMPLETE", "PIPELINE_ERROR"}

\* C18: a run that connected makes exactly one terminal audit call, and it is
\* the last audit call of the run: PIPELINE_COMPLETE exactly when run_pipeline
\* returns True, PIPELINE_ERROR exactly when it returns False; before
\* run_pipeline returns no terminal entry is logged, and after it nothing is
\* logged.
C18_OneTerminalEntry ==
  LET n == Len(AuditEvents)
      terminal == { k \in 1..n : AuditEvents[k] \in TerminalEvents }
  IN /\ ~Returned => terminal = {}
     /\ Returned =>
          /\ n >= 1
          /\ terminal = {n}
          /\ (AuditEvents[n] = "PIPELINE_COMPLETE") <=> (success = "True")
          /\ (AuditEvents[n] = "PIPELINE_ERROR") <=> (success = "False")
          /\ stmts[Len(stmts)].kind = "AUDIT"
          /\ stmts[Len(stmts)].target = AuditEvents[n]
     /\ \A k \in 1..Len(auditLog) :
          auditLog[k].event_type \in TerminalEvents => k = Len(auditLog)

C18_Witness ==
  /\ pc = "done"
  /\ success = "False"
  /\ AuditEvents = << "STREAM_CHECK", "DYNAMIC_TABLES", "PIPELINE_ERROR" >>

C20_TerminatesAndCloses ==
  /\ <>(pc = "done")
  /\ [](pc = "close" => success \in {"True", "False"} /\ closeCalls = 0 /\ cursorOpen)
  /\ [](closeCalls = (IF connected /\ pc \in {"exit", "done"} THEN 1 ELSE 0))
  /\ [](pc = "done" => ~cursorOpen /\ exitCode \in {0, 1})
  /\ [][closeCalls >= 1 => stmts' = stmts]_vars

C20_Witness ==
  /\ pc = "done"
  /\ closeCalls = 1
  /\ success = "False"
  /\ ~cursorOpen

====
